---------------------------- MODULE Spec2Model ----------------------------
(***************************************************************************)
(* A model of bittorrent-client: the peer wire protocol engine             *)
(* (src/src/peer.rs: Message::read_from / write_to, Client::connect,       *)
(* Client::handshake, Client::request_pieces, Client::add_pieces), the     *)
(* bencode codec (src/src/decode.rs) and the piece lengths the download    *)
(* commands plan (src/src/main.rs).                                        *)
(*                                                                         *)
(* The specifications of the module:                                       *)
(*   Spec         one call of request_pieces against an arbitrary peer     *)
(*   LiveSpec     Spec with weak fairness on the client's own steps        *)
(*   CancelSpec   Spec with a caller that may drop receivers               *)
(*   StreamSpec   Spec on a stream whose frames may arrive in two parts    *)
(*   ConnectSpec  one call of connect against an arbitrary peer            *)
(*   FramingSpec  write_to followed by read_from on one message            *)
(*   RawReadSpec  read_from on a frame the peer made up                    *)
(*   DecodeSpec   decode, Decoded::encode, decode again on one input       *)
(*   PlanSpec     the pieces and blocks of download_piece / download_file  *)
(***************************************************************************)
EXTENDS Integers, Sequences, FiniteSets, TLC

(***************************************************************************)
(* Bounds of the model.                                                    *)
(***************************************************************************)
\* longest request list handed to request_pieces
MaxReqs == 3
\* number of frames the peer sends during one call of request_pieces
MaxInbound == 3
\* longest block / bitfield payload, in bytes
MaxBlockLen == 1
\* largest tag byte and longest payload of a frame handed to read_from raw
MaxRawTag == 10
MaxRawLen == 12
\* largest file length and piece length of a torrent, in bytes
MaxLength == 6
MaxPieceLength == 4
\* most items of a list and most entries of a dict handed to decode
MaxItems == 2
\* most whole blocks in the piece length of the larger sample torrents
MaxBlocks == 2

(***************************************************************************)
(* Program constants.                                                      *)
(***************************************************************************)
\* b"BitTorrent protocol".len()
ProtStrLen == 19
\* 2 << 13, the block size used when a piece is split into requests
BlockSize == 16384

VARIABLES
    \* ---- FramingSpec -------------------------------------------------
    fmsg,       \* the Message handed to write_to
    fwire,      \* the bytes write_to put on the stream
    fres,       \* what read_from made of them
    fpc,        \* "start" | "written" | "read"
    \* ---- the Client struct (shared by connect and request_pieces) ----
    info_hash,  \* Client.info_hash
    bitfield,   \* Client.bitfield : Option<Vec<u8>>
    choked,     \* Client.choked
    \* ---- ConnectSpec -------------------------------------------------
    cpc,        \* position in connect / its outcome
    clog,       \* what connect wrote to ("tx") and read from ("rx") the
                \* stream, in order
    \* ---- Spec: request_pieces ----------------------------------------
    reqs,       \* the argument: the list of Piece keys, slot i belongs to reqs[i]
    pieces,     \* the HashMap (index, begin) -> sender, as key -> position in reqs
    slot,       \* per position: what the oneshot receiver observes
    pc,         \* position in request_pieces / its outcome
    readOff,    \* the read branch of the running select! is disabled
    out,        \* the chunks add_pieces wrote to the stream, in order
    inbound,    \* the bytes the peer has sent and the client has not read
    rdBuf,      \* the bytes the read_from future of the running select! has
                \* consumed while its frame is still incomplete
    peerRest,   \* the rest of a frame of which the peer has sent a part
    nsent,      \* number of frames the peer has sent
    closed,     \* the peer has closed the connection
    \* ---- history of the call (not program state) ----------------------
    gotChoke,   \* read_from has returned a Choke during the call
    firstBlock, \* per key: the block of the first Piece message for it that
                \* read_from returned before any Choke
    ioErr,      \* a read or a write on the stream has returned an I/O error
    dropped,    \* number of bytes a read_from had consumed when select!
                \* dropped it because add completed
    sentChoke,  \* the peer has sent a Choke during the call
    \* ---- DecodeSpec: decode.rs ---------------------------------------
    dinput,     \* the bytes handed to decode
    dres,       \* what decode made of them
    denc,       \* Decoded::encode of the decoded value
    dres2,      \* what decode made of denc
    dpc,        \* "start" | "decoded" | "encoded" | "redecoded"
    \* ---- PlanSpec: the download commands of main.rs -------------------
    cmd,            \* "download_piece" | "download_file"
    info_length,    \* data.info.length
    piece_length,   \* data.info.piece_length
    index,          \* the piece the command is working on
    plan,           \* per piece handled so far: the length the command gave it
    mpieces,        \* main's `pieces` Vec: the Piece keys pushed so far, in order
    mpc             \* "run" | "done"

fvars == <<fmsg, fwire, fres, fpc>>
cvars == <<cpc, clog>>
svars == <<info_hash, bitfield, choked>>
hvars == <<gotChoke, firstBlock, ioErr, dropped, sentChoke>>
rvars == <<reqs, pieces, slot, pc, readOff, out, inbound, rdBuf, peerRest, nsent,
          closed, hvars>>
dvars == <<dinput, dres, denc, dres2, dpc>>
mvars == <<cmd, info_length, piece_length, index, plan, mpieces, mpc>>
xvars == <<dvars, mvars>>
vars == <<fvars, svars, cvars, rvars, xvars>>

(***************************************************************************)
(* Message (peer.rs:33-53).  One record shape for the ten variants; the    *)
(* fields a variant does not have are 0 / <<>>.                            *)
(***************************************************************************)
Msg(t, i, b, l, blk) ==
    [type |-> t, index |-> i, begin |-> b, length |-> l, block |-> blk]

Choke == Msg("Choke", 0, 0, 0, <<>>)
Unchoke == Msg("Unchoke", 0, 0, 0, <<>>)
Interested == Msg("Interested", 0, 0, 0, <<>>)
NotInterested == Msg("NotInterested", 0, 0, 0, <<>>)
Have == Msg("Have", 0, 0, 0, <<>>)
Bitfield(v) == Msg("Bitfield", 0, 0, 0, v)
Request(i, b, l) == Msg("Request", i, b, l, <<>>)
PieceMsg(i, b, blk) == Msg("Piece", i, b, 0, blk)
Cancel == Msg("Cancel", 0, 0, 0, <<>>)
Port == Msg("Port", 0, 0, 0, <<>>)

\* bytes and u32 values the model draws from.  TLC's integers are 32-bit
\* signed, so the u32 samples stay below 2^31; no arithmetic of the framing
\* code depends on the top bit.
Bytes == {0, 255}
U32Samples == {0, 1, BlockSize, 2147483647}
ByteSeqs == UNION {[1..n -> Bytes] : n \in 0..MaxBlockLen}

Messages ==
    {Choke, Unchoke, Interested, NotInterested, Have, Cancel, Port}
    \cup {Bitfield(v) : v \in ByteSeqs}
    \cup {Request(i, b, l) : i \in {0, 1}, b \in U32Samples, l \in U32Samples}
    \cup {PieceMsg(i, b, blk) : i \in {0, 1}, b \in U32Samples, blk \in ByteSeqs}

(***************************************************************************)
(* Big-endian u32 (AsyncWriteExt::write_u32 / AsyncReadExt::read_u32).     *)
(***************************************************************************)
BE32(n) ==
    << (n \div 16777216) % 256, (n \div 65536) % 256, (n \div 256) % 256, n % 256 >>

FromBE32(s) == s[1] * 16777216 + s[2] * 65536 + s[3] * 256 + s[4]

\* s[a..b] of a byte sequence (1-based, inclusive); <<>> when b < a
Slice(s, a, b) == [k \in 1..(b - a + 1) |-> s[a + k - 1]]

(***************************************************************************)
(* Message::write_to (peer.rs:87-131): the payload is buffered, then the   *)
(* length (payload + 1), the tag and the payload are written.              *)
(***************************************************************************)
Tag(m) ==
    CASE m.type = "Choke" -> 0
      [] m.type = "Unchoke" -> 1
      [] m.type = "Interested" -> 2
      [] m.type = "NotInterested" -> 3
      [] m.type = "Have" -> 4
      [] m.type = "Bitfield" -> 5
      [] m.type = "Request" -> 6
      [] m.type = "Piece" -> 7
      [] m.type = "Cancel" -> 8
      [] m.type = "Port" -> 9

Payload(m) ==
    CASE m.type = "Bitfield" -> m.block
      [] m.type = "Request" -> BE32(m.index) \o BE32(m.begin) \o BE32(m.length)
      [] m.type = "Piece" -> BE32(m.index) \o BE32(m.begin) \o m.block
      [] OTHER -> <<>>

LenField(m) == Len(Payload(m)) + 1

write_to(m) == BE32(LenField(m)) \o <<Tag(m)>> \o Payload(m)

(***************************************************************************)
(* Message::read_from (peer.rs:56-85) on the bytes the stream will         *)
(* deliver.  kind is "ok" (Ok(msg)), "err" (Err: the stream ended inside   *)
(* the frame) or "panic" (the function panics: len - 1 underflows for a    *)
(* zero length, a payload slice is out of range, or the tag has no arm).   *)
(* used is the number of bytes taken from the stream.                      *)
(***************************************************************************)
ReadResult(k, m, n) == [kind |-> k, msg |-> m, used |-> n]

DecodeTag(tag, payload) ==
    CASE tag = 0 -> ReadResult("ok", Choke, 0)
      [] tag = 1 -> ReadResult("ok", Unchoke, 0)
      [] tag = 2 -> ReadResult("ok", Interested, 0)
      [] tag = 3 -> ReadResult("ok", NotInterested, 0)
      [] tag = 4 -> ReadResult("ok", Have, 0)
      [] tag = 5 -> ReadResult("ok", Bitfield(payload), 0)
      [] tag = 6 ->
            IF Len(payload) < 12
            THEN ReadResult("panic", Choke, 0)
            ELSE ReadResult("ok",
                            Request(FromBE32(Slice(payload, 1, 4)),
                                    FromBE32(Slice(payload, 5, 8)),
                                    FromBE32(Slice(payload, 9, 12))), 0)
      [] tag = 7 ->
            IF Len(payload) < 8
            THEN ReadResult("panic", Choke, 0)
            ELSE ReadResult("ok",
                            PieceMsg(FromBE32(Slice(payload, 1, 4)),
                                     FromBE32(Slice(payload, 5, 8)),
                                     Slice(payload, 9, Len(payload))), 0)
      [] tag = 9 -> ReadResult("ok", Port, 0)
      [] OTHER -> ReadResult("panic", Choke, 0)

read_from(bytes) ==
    IF Len(bytes) < 4 THEN ReadResult("err", Choke, Len(bytes))
    ELSE LET len == FromBE32(Slice(bytes, 1, 4)) IN
         IF Len(bytes) < 5 THEN ReadResult("err", Choke, 4)
         ELSE IF len = 0 THEN ReadResult("panic", Choke, 5)
         ELSE IF Len(bytes) < 4 + len THEN ReadResult("err", Choke, Len(bytes))
         ELSE LET r == DecodeTag(bytes[5], Slice(bytes, 6, 4 + len)) IN
              ReadResult(r.kind, r.msg, 4 + len)


(***************************************************************************)
(* Option<Vec<u8>> for Client.bitfield (peer.rs:153).                      *)
(***************************************************************************)
None == [some |-> FALSE, v |-> <<>>]
Some(x) == [some |-> TRUE, v |-> x]

(***************************************************************************)
(* The values of the variables a specification does not use.               *)
(***************************************************************************)
FramingIdle ==
    /\ fmsg = Choke
    /\ fwire = <<>>
    /\ fres = ReadResult("err", Choke, 0)
    /\ fpc = "idle"

ConnectIdle ==
    /\ cpc = "idle"
    /\ clog = <<>>

RequestIdle ==
    /\ reqs = <<>>
    /\ pieces = <<>>
    /\ slot = <<>>
    /\ pc = "idle"
    /\ readOff = FALSE
    /\ out = <<>>
    /\ inbound = <<>>
    /\ rdBuf = <<>>
    /\ peerRest = <<>>
    /\ nsent = 0
    /\ closed = FALSE
    /\ gotChoke = FALSE
    /\ firstBlock = <<>>
    /\ ioErr = FALSE
    /\ dropped = 0
    /\ sentChoke = FALSE

DecodeIdle ==
    /\ dinput = <<>>
    /\ dres = <<>>
    /\ denc = <<>>
    /\ dres2 = <<>>
    /\ dpc = "idle"

MainIdle ==
    /\ cmd = "idle"
    /\ info_length = 0
    /\ piece_length = 0
    /\ index = 0
    /\ plan = <<>>
    /\ mpieces = <<>>
    /\ mpc = "idle"

(***************************************************************************)
(* FramingSpec: write_to(m) onto an empty stream, then read_from it.       *)
(***************************************************************************)
FramingInit ==
    /\ fmsg \in Messages
    /\ fwire = <<>>
    /\ fres = ReadResult("err", Choke, 0)
    /\ fpc = "start"
    /\ info_hash = 0
    /\ bitfield = None
    /\ choked = FALSE
    /\ ConnectIdle
    /\ RequestIdle
    /\ DecodeIdle
    /\ MainIdle

FrameWrite ==
    /\ fpc = "start"
    /\ fwire' = write_to(fmsg)
    /\ fpc' = "written"
    /\ UNCHANGED <<fmsg, fres, svars, cvars, rvars, xvars>>

FrameRead ==
    /\ fpc = "written"
    /\ fres' = read_from(fwire)
    /\ fpc' = "read"
    /\ UNCHANGED <<fmsg, fwire, svars, cvars, rvars, xvars>>

FramingNext == FrameWrite \/ FrameRead

FramingSpec == FramingInit /\ [][FramingNext]_vars


(***************************************************************************)
(* request_pieces (peer.rs:230-317).                                       *)
(*                                                                         *)
(* A completion slot is the receiving end of a oneshot channel of          *)
(* Option<DataPiece>.  It is pending until the sender sends a value or is  *)
(* dropped; a dropped sender resolves the receiver with RecvError, which   *)
(* is the only not-delivered signal the code ever produces (it never       *)
(* sends None).                                                            *)
(***************************************************************************)
Pending == [st |-> "pending", index |-> 0, begin |-> 0, block |-> <<>>]
Delivered(i, b, blk) == [st |-> "data", index |-> i, begin |-> b, block |-> blk]
Dropped == [st |-> "dropped", index |-> 0, begin |-> 0, block |-> <<>>]
\* the caller has dropped the receiving end: a send on the channel fails
RxClosed == [st |-> "closed", index |-> 0, begin |-> 0, block |-> <<>>]

\* Piece (peer.rs:134-139), the request keys the model draws from
PieceKey(i, b, l) == [index |-> i, begin |-> b, length |-> l]
KeyUniverse ==
    {PieceKey(0, 0, BlockSize), PieceKey(0, BlockSize, 1), PieceKey(1, 0, BlockSize)}

KeyOf(k) == <<k.index, k.begin>>

\* request lists: at most MaxReqs keys, pairwise distinct in (index, begin)
RequestLists ==
    {s \in UNION {[1..n -> KeyUniverse] : n \in 0..MaxReqs} :
        \A i, j \in DOMAIN s : i # j => KeyOf(s[i]) # KeyOf(s[j])}

\* the blocks the peer answers with
Blocks == {<<0>>, <<255>>}

\* what the peer may send during the call
PeerMessages ==
    {Choke, Unchoke, Interested, NotInterested, Have, Bitfield(<<255>>),
     Request(0, 0, BlockSize), Cancel, Port}
    \cup {PieceMsg(k.index, k.begin, blk) : k \in KeyUniverse, blk \in Blocks}

\* peer.rs:238-241: the list collected into a HashMap keyed by (index, begin)
CollectPieces(rs) ==
    [k \in {KeyOf(rs[i]) : i \in DOMAIN rs} |->
        CHOOSE i \in DOMAIN rs : KeyOf(rs[i]) = k
                                 /\ \A j \in DOMAIN rs : KeyOf(rs[j]) = k => j <= i]

\* pieces.remove(&(index, begin))
RemoveKey(p, k) == [x \in DOMAIN p \ {k} |-> p[x]]

\* the map goes out of scope: every sender still in it is dropped, which
\* the receiver, if the caller still holds it, observes
DropSenders(p, s) ==
    [i \in DOMAIN s |->
        IF s[i] # RxClosed /\ \E k \in DOMAIN p : p[k] = i THEN Dropped ELSE s[i]]

\* peer.rs:255-260 and 290-306: a Piece message against the map
PieceHit(p, m) == <<m.index, m.begin>> \in DOMAIN p

\* piece.send(Some(data)) (peer.rs:258, 296) succeeds unless the
\* receiver has been dropped
SendOk(p, s, m) == s[p[<<m.index, m.begin>>]] # RxClosed

\* (a variant that assumes replies come in request order: the block goes to
\* the oldest outstanding request instead of the one with the message's key)
SlotsAfterPieceFifo(p, s, m) ==
    IF PieceHit(p, m)
    THEN LET first == CHOOSE i \in {p[k] : k \in DOMAIN p} :
                          \A k \in DOMAIN p : i <= p[k]
         IN [s EXCEPT ![first] = Delivered(m.index, m.begin, m.block)]
    ELSE s

SlotsAfterPiece(p, s, m) ==
    IF PieceHit(p, m) /\ SendOk(p, s, m)
    THEN [s EXCEPT ![p[<<m.index, m.begin>>]] = Delivered(m.index, m.begin, m.block)]
    ELSE s

\* (a variant that looks the sender up and leaves it in the map)
MapAfterPieceKept(p, m) == p

MapAfterPiece(p, m) ==
    IF PieceHit(p, m) THEN RemoveKey(p, <<m.index, m.begin>>) ELSE p

\* add_pieces (peer.rs:210-224) through write_to (peer.rs:126-128): each
\* Request goes out as three writes, each of them an await point
Chunks(k) ==
    LET m == Request(k.index, k.begin, k.length) IN
    << [part |-> "len", bytes |-> BE32(LenField(m))],
       [part |-> "tag", bytes |-> <<Tag(m)>>],
       [part |-> "payload", bytes |-> Payload(m)] >>

RECURSIVE AllChunks(_)
AllChunks(rs) == IF rs = <<>> THEN <<>> ELSE Chunks(Head(rs)) \o AllChunks(Tail(rs))

Init ==
    /\ reqs \in RequestLists
    /\ pieces = CollectPieces(reqs)
    /\ slot = [i \in DOMAIN reqs |-> Pending]
    /\ pc = "select"
    /\ readOff = FALSE
    /\ out = <<>>
    /\ inbound = <<>>
    /\ rdBuf = <<>>
    /\ peerRest = <<>>
    /\ nsent = 0
    /\ closed = FALSE
    /\ gotChoke = FALSE
    /\ firstBlock = [k \in {KeyOf(x) : x \in KeyUniverse} |-> None]
    /\ ioErr = FALSE
    /\ dropped = 0
    /\ sentChoke = FALSE
    /\ info_hash = 0
    /\ bitfield = Some(<<255>>)
    /\ choked = FALSE
    /\ FramingIdle
    /\ ConnectIdle
    /\ DecodeIdle
    /\ MainIdle

(***************************************************************************)
(* The stream the client reads is a sequence of bytes.                     *)
(***************************************************************************)
\* s without its first n bytes
DropBytes(s, n) == SubSeq(s, n + 1, Len(s))

\* peer.rs:60-63: s holds all the bytes read_from needs to return: the
\* length prefix, the tag, and the len - 1 bytes of payload that
\* read_exact waits for (a prefix of 2^31 and more asks for more bytes than
\* any stream of the model holds; a prefix of 0 fails before read_exact)
FrameReady(s) ==
    /\ Len(s) >= 5
    /\ s[1] < 128
    /\ \/ FromBE32(Slice(s, 1, 4)) = 0
       \/ Len(s) >= 4 + FromBE32(Slice(s, 1, 4))

\* the bytes the read_from of the running iteration works on: what it has
\* consumed already, then what waits on the stream
ReadInput == rdBuf \o inbound

(***************************************************************************)
(* The peer.  It sends its next frame once the client has taken the        *)
(* previous one: frames that arrive earlier wait in the socket buffer,     *)
(* where the client cannot see them, so the client reads the same          *)
(* sequences either way.                                                   *)
(***************************************************************************)
PeerSend ==
    /\ pc \in {"select", "loop"}
    /\ ~closed
    /\ nsent < MaxInbound
    /\ peerRest = <<>>
    /\ ~FrameReady(ReadInput)
    /\ \E m \in PeerMessages :
         /\ inbound' = inbound \o write_to(m)
         /\ sentChoke' = (sentChoke \/ m = Choke)
    /\ nsent' = nsent + 1
    /\ UNCHANGED <<reqs, pieces, slot, pc, readOff, out, rdBuf, peerRest, closed,
                   gotChoke, firstBlock, ioErr, dropped,
                   fvars, xvars, svars, cvars>>

PeerClose ==
    /\ pc \in {"select", "loop"}
    /\ ~closed
    /\ closed' = TRUE
    /\ UNCHANGED <<reqs, pieces, slot, pc, readOff, out, inbound, rdBuf, peerRest,
                   nsent, hvars, fvars, xvars, svars, cvars>>

(***************************************************************************)
(* The first loop (peer.rs:246-274): select! over read_from and the        *)
(* pinned add_pieces future.                                               *)
(***************************************************************************)
\* (a variant that treats Choke as the second loop does: it sets the flag
\* and goes on)
SelectOnChokeGoOn ==
    /\ choked' = TRUE
    /\ UNCHANGED <<pc, slot, pieces>>

\* peer.rs:250-253 then 271-274: Choke ends the call with Ok(true)
SelectOnChoke ==
    /\ choked' = TRUE
    /\ pc' = "ok_true"
    /\ slot' = DropSenders(pieces, slot)
    /\ pieces' = <<>>

\* peer.rs:254-261: a Piece is delivered, the loop goes on
SelectOnPiece(m) ==
    /\ slot' = SlotsAfterPiece(pieces, slot, m)
    /\ pieces' = MapAfterPiece(pieces, m)
    /\ UNCHANGED <<pc, choked>>

\* (a variant that skips a message it does not expect)
OnUnexpectedSkipped == UNCHANGED <<pc, slot, pieces, choked>>

\* peer.rs:262 / 308: bail!
OnUnexpected ==
    /\ pc' = "err"
    /\ slot' = DropSenders(pieces, slot)
    /\ pieces' = <<>>
    /\ UNCHANGED choked

\* read_from panicked: the stack unwinds and drops the map
OnPanic ==
    /\ pc' = "panic"
    /\ slot' = DropSenders(pieces, slot)
    /\ pieces' = <<>>
    /\ UNCHANGED choked

\* history: what read_from returned
Record(r) ==
    /\ gotChoke' = (gotChoke \/ (r.kind = "ok" /\ r.msg.type = "Choke"))
    /\ firstBlock' =
         IF r.kind = "ok" /\ r.msg.type = "Piece" /\ ~gotChoke
            /\ ~firstBlock[<<r.msg.index, r.msg.begin>>].some
         THEN [firstBlock EXCEPT ![<<r.msg.index, r.msg.begin>>] = Some(r.msg.block)]
         ELSE firstBlock

\* peer.rs:248-264: the read branch completes with a frame
SelectRead ==
    /\ pc = "select"
    /\ ~readOff
    /\ FrameReady(ReadInput)
    /\ LET r == read_from(ReadInput) IN
       /\ inbound' = DropBytes(ReadInput, r.used)
       /\ rdBuf' = <<>>
       /\ Record(r)
       /\ IF r.kind = "panic"
          THEN OnPanic
          ELSE /\ CASE r.msg.type = "Choke" -> SelectOnChoke
                    [] r.msg.type = "Piece" -> SelectOnPiece(r.msg)
                    [] OTHER -> OnUnexpected
    /\ UNCHANGED <<reqs, readOff, out, peerRest, nsent, closed, ioErr, dropped,
                   sentChoke, fvars, xvars, cvars, info_hash, bitfield>>

\* peer.rs:248: read_from returns Err (the stream ends before the frame is
\* whole); the pattern Ok(message) does not match, so select! disables the
\* branch and goes on waiting for add
SelectReadErr ==
    /\ pc = "select"
    /\ ~readOff
    /\ ~FrameReady(ReadInput)
    /\ closed
    /\ readOff' = TRUE
    /\ ioErr' = TRUE
    /\ inbound' = <<>>
    /\ rdBuf' = <<>>
    /\ UNCHANGED <<reqs, pieces, slot, pc, out, peerRest, nsent, closed, gotChoke,
                   firstBlock, dropped, sentChoke, fvars, xvars, svars, cvars>>

\* peer.rs:265-268: add is polled.  It writes the next chunk; when nothing
\* is left to write it completes with Ok(()) and the loop breaks with false.
\* select! then drops the read_from future of this iteration, and with it
\* the bytes that future had consumed (peer.rs:60-63 hold them in locals).
AddDone(o) == Len(o) = 3 * Len(reqs)

SelectAdd ==
    /\ pc = "select"
    /\ IF AddDone(out)
       THEN out' = out
       ELSE out' = Append(out, AllChunks(reqs)[Len(out) + 1])
    /\ pc' = IF AddDone(out') THEN "loop" ELSE "select"
    /\ readOff' = IF AddDone(out') THEN FALSE ELSE readOff
    /\ rdBuf' = IF AddDone(out') THEN <<>> ELSE rdBuf
    /\ dropped' = IF AddDone(out') THEN dropped + Len(rdBuf) ELSE dropped
    /\ UNCHANGED <<reqs, pieces, slot, inbound, peerRest, nsent, closed, gotChoke,
                   firstBlock, ioErr, sentChoke, fvars, xvars, svars, cvars>>

\* peer.rs:266: a write fails, res? returns the error
SelectAddErr ==
    /\ pc = "select"
    /\ closed
    /\ ~AddDone(out)
    /\ pc' = "err"
    /\ slot' = DropSenders(pieces, slot)
    /\ pieces' = <<>>
    /\ ioErr' = TRUE
    /\ rdBuf' = <<>>
    /\ UNCHANGED <<reqs, readOff, out, inbound, peerRest, nsent, closed, gotChoke,
                   firstBlock, dropped, sentChoke, fvars, xvars, svars, cvars>>

(***************************************************************************)
(* The second loop (peer.rs:275-316).                                      *)
(***************************************************************************)
\* peer.rs:280-283: Choke sets the flag and the loop goes on
LoopOnChoke ==
    /\ choked' = TRUE
    /\ UNCHANGED <<pc, slot, pieces>>

\* peer.rs:284-307: a Piece is delivered; break false once the map is empty.
\* The map is looked at only after a send that succeeded (peer.rs:297-301);
\* a failed send is logged and the loop goes on (peer.rs:302-304).
LoopOnPiece(m) ==
    /\ slot' = SlotsAfterPiece(pieces, slot, m)
    /\ pieces' = MapAfterPiece(pieces, m)
    /\ pc' = IF PieceHit(pieces, m) /\ SendOk(pieces, slot, m) /\ DOMAIN pieces' = {}
             THEN "ok_false" ELSE "loop"
    /\ UNCHANGED choked

LoopRead ==
    /\ pc = "loop"
    /\ FrameReady(inbound)
    /\ LET r == read_from(inbound) IN
       /\ inbound' = DropBytes(inbound, r.used)
       /\ Record(r)
       /\ IF r.kind = "panic"
          THEN OnPanic
          ELSE /\ CASE r.msg.type = "Choke" -> LoopOnChoke
                    [] r.msg.type = "Piece" -> LoopOnPiece(r.msg)
                    [] OTHER -> OnUnexpected
    /\ UNCHANGED <<reqs, readOff, out, rdBuf, peerRest, nsent, closed, ioErr,
                   dropped, sentChoke, fvars, xvars, cvars, info_hash, bitfield>>

\* peer.rs:276-278: read_from returns Err (the stream ends before the frame
\* is whole), the ? returns it
LoopReadErr ==
    /\ pc = "loop"
    /\ ~FrameReady(inbound)
    /\ closed
    /\ pc' = "err"
    /\ slot' = DropSenders(pieces, slot)
    /\ pieces' = <<>>
    /\ ioErr' = TRUE
    /\ inbound' = <<>>
    /\ UNCHANGED <<reqs, readOff, out, rdBuf, peerRest, nsent, closed, gotChoke,
                   firstBlock, dropped, sentChoke, fvars, xvars, svars, cvars>>

ClientStep ==
    \/ SelectRead
    \/ SelectReadErr
    \/ SelectAdd
    \/ SelectAddErr
    \/ LoopRead
    \/ LoopReadErr

Next ==
    \/ PeerSend
    \/ PeerClose
    \/ SelectRead
    \/ SelectReadErr
    \/ SelectAdd
    \/ SelectAddErr
    \/ LoopRead
    \/ LoopReadErr

Spec == Init /\ [][Next]_vars

\* the client's own steps are taken whenever they stay possible; the peer
\* owes nothing
LiveSpec == Spec /\ WF_vars(ClientStep)

(***************************************************************************)
(* CancelSpec: request_pieces called by a caller that may drop receivers   *)
(* while the call runs (main.rs keeps every receiver in its JoinSet until  *)
(* the call has returned, so Spec has no such step).                       *)
(***************************************************************************)
CallerDrop ==
    /\ pc \in {"select", "loop"}
    /\ \E i \in DOMAIN slot :
         /\ slot[i] = Pending
         /\ slot' = [slot EXCEPT ![i] = RxClosed]
    /\ UNCHANGED <<reqs, pieces, pc, readOff, out, inbound, rdBuf, peerRest, nsent,
                   closed, hvars, fvars, xvars, svars, cvars>>

CancelNext == Next \/ CallerDrop

CancelSpec == Init /\ [][CancelNext]_vars

(***************************************************************************)
(* StreamSpec: request_pieces on a stream whose frames may arrive in two   *)
(* parts.  read_from is a chain of awaits (peer.rs:60-63): read_u32, then  *)
(* read_u8, then read_exact; each consumes the bytes that have arrived and *)
(* waits for the rest, so the future of the running select! iteration can  *)
(* be partway through a frame when the other branch completes.  In the     *)
(* second loop read_from is awaited to its end, where the arrival in parts *)
(* makes no difference; the peer splits frames during the first loop only. *)
(***************************************************************************)
\* where the peer cuts a frame: behind the length prefix, or behind the tag
SplitPoints == {4, 5}

\* the peer sends the first bytes of a frame
PeerSendPart ==
    /\ pc = "select"
    /\ ~closed
    /\ nsent < MaxInbound
    /\ peerRest = <<>>
    /\ ~FrameReady(ReadInput)
    /\ \E m \in PeerMessages, k \in SplitPoints :
         /\ k < Len(write_to(m))
         /\ inbound' = inbound \o SubSeq(write_to(m), 1, k)
         /\ peerRest' = DropBytes(write_to(m), k)
         /\ sentChoke' = (sentChoke \/ m = Choke)
    /\ nsent' = nsent + 1
    /\ UNCHANGED <<reqs, pieces, slot, pc, readOff, out, rdBuf, closed,
                   gotChoke, firstBlock, ioErr, dropped,
                   fvars, xvars, svars, cvars>>

\* the peer sends the rest of the frame it has started
PeerSendRest ==
    /\ pc \in {"select", "loop"}
    /\ ~closed
    /\ peerRest # <<>>
    /\ inbound' = inbound \o peerRest
    /\ peerRest' = <<>>
    /\ UNCHANGED <<reqs, pieces, slot, pc, readOff, out, rdBuf, nsent, closed, hvars,
                   fvars, xvars, svars, cvars>>

\* peer.rs:248 with 60-63: the read branch is polled, read_from consumes
\* the bytes that have arrived and stays pending for the rest of its frame
SelectReadPart ==
    /\ pc = "select"
    /\ ~readOff
    /\ inbound # <<>>
    /\ ~FrameReady(ReadInput)
    /\ rdBuf' = ReadInput
    /\ inbound' = <<>>
    /\ UNCHANGED <<reqs, pieces, slot, pc, readOff, out, peerRest, nsent, closed,
                   hvars, fvars, xvars, svars, cvars>>

StreamNext == Next \/ PeerSendPart \/ PeerSendRest \/ SelectReadPart

StreamSpec == Init /\ [][StreamNext]_vars


(***************************************************************************)
(* Properties of request_pieces.                                           *)
(***************************************************************************)
Resolved(i) == slot[i].st # "pending"
NotDelivered(i) == slot[i] = Dropped

\* C1: once the peer's Choke has been read during the call, every requested
\* key's slot is eventually resolved (with its block or with the
\* not-delivered signal): no slot stays pending forever.  Stated for a
\* finite run: the call is never left with a Choke read, a slot pending and
\* no step of its own to take, since from there the slot stays pending for
\* as long as the peer stays silent.
C1_NotStuckAfterChoke ==
    (gotChoke /\ \E i \in DOMAIN slot : ~Resolved(i)) => ENABLED ClientStep

\* the same as a temporal property, for LiveSpec
ChokeLeadsToResolved ==
    gotChoke ~> (\A i \in DOMAIN slot : Resolved(i))

\* C2: choke draining.  When the call has returned Ok(true), every key whose
\* Piece was read before the Choke has its slot resolved with the block of
\* that Piece, every other key's slot is resolved not-delivered, and so no
\* slot is pending.
C2_ChokeDraining ==
    pc = "ok_true" =>
        \A i \in DOMAIN reqs :
            LET fb == firstBlock[KeyOf(reqs[i])] IN
            IF fb.some
            THEN slot[i] = Delivered(reqs[i].index, reqs[i].begin, fb.v)
            ELSE NotDelivered(i)

\* three keys, the Piece for the first one and then the Choke
C2_Witness ==
    /\ pc = "ok_true"
    /\ Len(reqs) = 3
    /\ slot[1] = Delivered(reqs[1].index, reqs[1].begin, <<255>>)
    /\ NotDelivered(2)
    /\ NotDelivered(3)

\* C3: the call returns Ok(true) if a Choke was read during it, and
\* Ok(false) only if none was.
C3_ResultReflectsChoke ==
    /\ pc = "ok_false" => ~gotChoke
    /\ (pc \in {"ok_true", "ok_false"} /\ gotChoke) => pc = "ok_true"

\* C4: the call returns as soon as nothing is outstanding; it is never left
\* in the second loop, waiting for an inbound message, with an empty map.
C4_ReturnsWhenNothingOutstanding ==
    pc = "loop" => DOMAIN pieces # {}

\* C5: out-of-order delivery.  A slot that received a block received the
\* block of the Piece carrying its own (index, begin); and once the Piece of
\* every requested key has arrived (no Choke involved) the call returns
\* not-choked instead of waiting in the second loop.
AllArrived == \A i \in DOMAIN reqs : firstBlock[KeyOf(reqs[i])].some

C5_OutOfOrderDelivery ==
    /\ \A i \in DOMAIN reqs :
          (~gotChoke /\ slot[i].st = "data") =>
              /\ firstBlock[KeyOf(reqs[i])].some
              /\ slot[i] = Delivered(reqs[i].index, reqs[i].begin,
                                     firstBlock[KeyOf(reqs[i])].v)
    /\ (reqs # <<>> /\ ~gotChoke /\ AllArrived) => pc # "loop"

\* C6: a fatal error ends the call with the error returned and no slot
\* pending; in particular an I/O error met while Requests are still being
\* written is returned, not swallowed.
C6_ErrorsReturned ==
    /\ pc = "err" => \A i \in DOMAIN slot : Resolved(i)
    /\ ioErr => pc = "err"


(***************************************************************************)
(* connect (peer.rs:158-208) and handshake (peer.rs:319-352).              *)
(***************************************************************************)
ProtStr == "BitTorrent protocol"
Hashes == {1, 2}
PeerIds == {1, 2}

\* one entry of clog
Tx(x) == [dir |-> "tx", item |-> x]
Rx(x) == [dir |-> "rx", item |-> x]

\* the handshake block: length byte, protocol name, content hash, peer id
\* (the reserved bytes are written as zeros and read without a check)
HandshakeItem(n, s, h, id) ==
    [kind |-> "handshake", plen |-> n, pstr |-> s, hash |-> h, id |-> id, msg |-> Choke]
MessageItem(m) ==
    [kind |-> "message", plen |-> 0, pstr |-> "", hash |-> 0, id |-> 0, msg |-> m]

\* what the peer may answer the handshake with
HandshakeReplies ==
    {HandshakeItem(n, s, h, 1) :
        n \in {ProtStrLen, ProtStrLen - 1},
        s \in {ProtStr, "BitTorrent protocoX"},
        h \in Hashes}

\* what the peer may send after the handshake
ConnMessages ==
    {Choke, Unchoke, Interested, NotInterested, Have, Request(0, 0, BlockSize),
     PieceMsg(0, 0, <<0>>), Cancel, Port}
    \cup {Bitfield(v) : v \in ByteSeqs}

\* peer.rs:331-346: the three assert_eq! on the peer's handshake
HandshakeOutcome(reply, hash) ==
    IF reply.plen # ProtStrLen THEN "panic"
    ELSE IF reply.pstr # ProtStr THEN "panic"
    ELSE IF reply.hash # hash THEN "panic"
    ELSE "await_bitfield"

\* peer.rs:172-177: the first message must be Bitfield
FirstOutcome(r) ==
    IF r.kind = "panic" THEN "panic"
    ELSE IF r.kind = "ok" /\ r.msg.type = "Bitfield" THEN "send_interested"
    ELSE "err"

\* (a variant that takes Choke for an answer as well)
SecondOutcomeLax(r) ==
    IF r.kind = "panic" THEN "panic"
    ELSE IF r.kind = "ok" /\ r.msg.type \in {"Unchoke", "Choke"} THEN "session"
    ELSE "err"

\* peer.rs:185-190: the message after Interested must be Unchoke
SecondOutcome(r) ==
    IF r.kind = "panic" THEN "panic"
    ELSE IF r.kind = "ok" /\ r.msg.type = "Unchoke" THEN "session"
    ELSE "err"

ConnectInit ==
    /\ cpc = "hs_write"
    /\ clog = <<>>
    /\ info_hash \in Hashes
    /\ bitfield = None
    /\ choked = FALSE
    /\ FramingIdle
    /\ RequestIdle
    /\ DecodeIdle
    /\ MainIdle

\* peer.rs:322-328
HandshakeWrite ==
    /\ cpc = "hs_write"
    /\ \E id \in PeerIds :
         clog' = Append(clog, Tx(HandshakeItem(ProtStrLen, ProtStr, info_hash, id)))
    /\ cpc' = "hs_read"
    /\ UNCHANGED <<svars, fvars, xvars, rvars>>

\* peer.rs:331-351
HandshakeRead ==
    /\ cpc = "hs_read"
    /\ \E reply \in HandshakeReplies :
         /\ clog' = Append(clog, Rx(reply))
         /\ cpc' = HandshakeOutcome(reply, info_hash)
    /\ UNCHANGED <<svars, fvars, xvars, rvars>>

\* peer.rs:172-178
ReadBitfield ==
    /\ cpc = "await_bitfield"
    /\ \E m \in ConnMessages :
         LET r == read_from(write_to(m)) IN
         /\ clog' = Append(clog, Rx(MessageItem(m)))
         /\ cpc' = FirstOutcome(r)
         /\ bitfield' = IF FirstOutcome(r) = "send_interested"
                        THEN Some(r.msg.block) ELSE bitfield
    /\ UNCHANGED <<info_hash, choked, fvars, xvars, rvars>>

\* peer.rs:180-183
SendInterested ==
    /\ cpc = "send_interested"
    /\ clog' = Append(clog, Tx(MessageItem(Interested)))
    /\ cpc' = "await_unchoke"
    /\ UNCHANGED <<svars, fvars, xvars, rvars>>

\* peer.rs:185-207
ReadUnchoke ==
    /\ cpc = "await_unchoke"
    /\ \E m \in ConnMessages :
         LET r == read_from(write_to(m)) IN
         /\ clog' = Append(clog, Rx(MessageItem(m)))
         /\ cpc' = SecondOutcome(r)
    /\ UNCHANGED <<svars, fvars, xvars, rvars>>

\* any read or write of connect returns an I/O error (the ? operators)
ConnectIoErr ==
    /\ cpc \in {"hs_write", "hs_read", "await_bitfield", "send_interested",
                "await_unchoke"}
    /\ cpc' = "err"
    /\ UNCHANGED <<clog, svars, fvars, xvars, rvars>>

ConnectNext ==
    \/ HandshakeWrite
    \/ HandshakeRead
    \/ ReadBitfield
    \/ SendInterested
    \/ ReadUnchoke
    \/ ConnectIoErr

ConnectSpec == ConnectInit /\ [][ConnectNext]_vars


(***************************************************************************)
(* Properties of connect and handshake.                                    *)
(***************************************************************************)
BadReply(x) == x.plen # ProtStrLen \/ x.pstr # ProtStr \/ x.hash # info_hash
RxMessage(e, ty) == e.dir = "rx" /\ e.item.kind = "message" /\ e.item.msg.type = ty
TxInterested == Tx(MessageItem(Interested))

\* C7: handshake validation.  When the peer's handshake has a length byte
\* other than 19, another protocol name or another content hash, the
\* handshake fails with an error handed to the caller (not a crash), and
\* nothing is sent after the client's own handshake.
C7_HandshakeValidation ==
    (Len(clog) >= 2 /\ BadReply(clog[2].item)) => (cpc = "err" /\ Len(clog) = 2)

\* C8: opening sequence, step 1.  When the first message after the handshake
\* is not Bitfield, connect fails with an error, sends no Interested and
\* returns no session; Interested is sent only after a Bitfield has been
\* received and stored.
C8_BitfieldFirst ==
    /\ (Len(clog) >= 3 /\ ~RxMessage(clog[3], "Bitfield")) =>
           (cpc = "err" /\ Len(clog) = 3)
    /\ \A i \in DOMAIN clog :
           clog[i] = TxInterested =>
               /\ i = 4
               /\ RxMessage(clog[3], "Bitfield")
               /\ bitfield = Some(clog[3].item.msg.block)

\* C9: opening sequence, step 2.  connect returns a session only when the
\* message read after Interested is Unchoke, and fails for any other; a
\* returned session has gone through handshake, Bitfield, Interested and
\* Unchoke in that order, holds the bitfield it received and is not choked.
C9_SessionOpened ==
    /\ cpc = "session" =>
           /\ Len(clog) = 5
           /\ clog[1] \in {Tx(HandshakeItem(ProtStrLen, ProtStr, info_hash, id)) :
                             id \in PeerIds}
           /\ clog[2].dir = "rx" /\ clog[2].item.kind = "handshake"
           /\ ~BadReply(clog[2].item)
           /\ RxMessage(clog[3], "Bitfield")
           /\ clog[4] = TxInterested
           /\ clog[5] = Rx(MessageItem(Unchoke))
           /\ bitfield = Some(clog[3].item.msg.block)
           /\ choked = FALSE
    /\ (Len(clog) = 5 /\ clog[5] # Rx(MessageItem(Unchoke))) => cpc \in {"err", "panic"}

C9_Witness ==
    /\ cpc = "session"
    /\ bitfield = Some(<<255>>)
    /\ clog[5] = Rx(MessageItem(Unchoke))

(***************************************************************************)
(* Properties of the framing.                                              *)
(***************************************************************************)
ZeroPayload == {"Choke", "Unchoke", "Interested", "NotInterested", "Have", "Cancel", "Port"}

\* C10: framing round trip.  For each of the ten variants read_from gives
\* back the message write_to was given, and a variant without payload goes
\* out with a length field of 1.
C10_FramingRoundTrip ==
    /\ fpc = "read" => (fres.kind = "ok" /\ fres.msg = fmsg)
    /\ (fpc \in {"written", "read"} /\ fmsg.type \in ZeroPayload) =>
           FromBE32(Slice(fwire, 1, 4)) = 1



(***************************************************************************)
(* RawReadSpec: read_from on a frame the peer made up.  The stream holds   *)
(* one whole frame: a length prefix, a tag byte and a payload of the       *)
(* announced length, for every tag value and every payload length         *)
(* up to the bounds.                                                       *)
(***************************************************************************)
\* payloads of one repeated byte
RawPayloads == {[i \in 1..n |-> b] : n \in 0..MaxRawLen, b \in {0, 127}}

\* a frame of length 0 (a keep-alive) with the frame that follows it on the stream
KeepAliveFrames == {BE32(0) \o write_to(m) : m \in {Choke, Unchoke, Have}}

RawFrames ==
    {BE32(Len(p) + 1) \o <<t>> \o p : t \in 0..MaxRawTag, p \in RawPayloads}
        \cup KeepAliveFrames

RawReadInit ==
    /\ fmsg = Choke
    /\ fwire \in RawFrames
    /\ fres = ReadResult("err", Choke, 0)
    /\ fpc = "written"
    /\ info_hash = 0
    /\ bitfield = None
    /\ choked = FALSE
    /\ ConnectIdle
    /\ RequestIdle
    /\ DecodeIdle
    /\ MainIdle

RawReadNext == FrameRead

RawReadSpec == RawReadInit /\ [][RawReadNext]_vars

\* the tag byte and the payload length of a whole frame
FrameTag(w) == w[5]
FramePayloadLen(w) == Len(w) - 5

\* the tags of the ten Message variants
KnownTags == 0..9

MalformedFrame(w) ==
    \/ FrameTag(w) \notin KnownTags
    \/ FrameTag(w) = 6 /\ FramePayloadLen(w) < 12
    \/ FrameTag(w) = 7 /\ FramePayloadLen(w) < 8

\* C11: read_from returns an error value to its caller, and does not
\* crash, whenever the frame's tag is not a recognised one or the payload
\* of a fixed-layout message is too short (a Request payload under 12
\* bytes, a Piece payload under 8 bytes).
C11_MalformedFrameIsError ==
    (fpc = "read" /\ MalformedFrame(fwire)) => fres.kind = "err"



(***************************************************************************)
(* PlanSpec: the lengths the download commands of main.rs give to the      *)
(* pieces of a torrent (main.rs:171-265).  The torrent describes its       *)
(* file: it holds one 20-byte hash per piece_length bytes of the file,     *)
(* the last piece possibly shorter.                                        *)
(***************************************************************************)
\* main.rs:225-227 and 190: the values of (0..n).step_by(step), that is
\* 0, step, 2 * step, ... below n
StepBy(n, step) == {k * step : k \in 0..((n - 1) \div step)}

\* main.rs:56-58: info.pieces().count(), the number of hashes in the torrent
PieceCount(L, P) == Cardinality(StepBy(L, P))

\* main.rs:178-182 and 231-235
PieceLengthOf(L, P, count, idx) ==
    IF count - 1 = idx THEN L % P ELSE P

\* a split that never shortens the last block
BlockLengthFull(n, begin) == BlockSize

\* main.rs:191 and 239: the length of the block that starts at begin
BlockLength(n, begin) == IF n - begin < BlockSize THEN n - begin ELSE BlockSize

\* main.rs:190-202 and 238-249: the keys pushed for piece idx of n bytes,
\* in the order of the loop
PieceBlocks(idx, n) ==
    [j \in 1..Cardinality(StepBy(n, BlockSize)) |->
        PieceKey(idx, (j - 1) * BlockSize, BlockLength(n, (j - 1) * BlockSize))]

\* piece lengths of one block and more, at and about the block boundaries
BigPieceLengths == {b * BlockSize + d : b \in 1..MaxBlocks, d \in {-1, 0, 1}}

\* the torrents handed to the commands, as <<length, piece length>>: small
\* ones, and ones whose pieces are split into several blocks
Torrents ==
    {<<L, P>> : L \in 1..MaxLength, P \in 1..MaxPieceLength}
        \cup ({<<q * P + r, P>> :
                    P \in BigPieceLengths, q \in 0..2, r \in {0, 1, BlockSize + 1}}
               \ {<<0, P>> : P \in BigPieceLengths})

PlanInit ==
    /\ cmd \in {"download_piece", "download_file"}
    /\ \E t \in Torrents : info_length = t[1] /\ piece_length = t[2]
    /\ index \in IF cmd = "download_piece"
                 THEN 0..(PieceCount(info_length, piece_length) - 1)
                 ELSE {0}
    /\ plan = <<>>
    /\ mpieces = <<>>
    /\ mpc = "run"
    /\ info_hash = 0
    /\ bitfield = None
    /\ choked = FALSE
    /\ FramingIdle
    /\ ConnectIdle
    /\ RequestIdle
    /\ DecodeIdle

\* main.rs:171-215: the one piece named on the command line
DownloadPiece ==
    /\ cmd = "download_piece"
    /\ mpc = "run"
    /\ LET n == PieceLengthOf(info_length, piece_length,
                              PieceCount(info_length, piece_length), index)
       IN /\ plan' = <<n>>
          /\ mpieces' = PieceBlocks(index, n)
    /\ mpc' = "done"
    /\ UNCHANGED <<cmd, info_length, piece_length, index, dvars,
                   fvars, svars, cvars, rvars>>

\* main.rs:225-250: one turn of the loop over the pieces of the file
DownloadFilePiece ==
    /\ cmd = "download_file"
    /\ mpc = "run"
    /\ index < Cardinality(StepBy(info_length, piece_length))
    /\ LET n == PieceLengthOf(info_length, piece_length,
                              PieceCount(info_length, piece_length), index)
       IN /\ plan' = Append(plan, n)
          /\ mpieces' = mpieces \o PieceBlocks(index, n)
    /\ index' = index + 1
    /\ UNCHANGED <<cmd, info_length, piece_length, mpc, dvars,
                   fvars, svars, cvars, rvars>>

\* main.rs:225: the loop has run over every piece
DownloadFileDone ==
    /\ cmd = "download_file"
    /\ mpc = "run"
    /\ index = Cardinality(StepBy(info_length, piece_length))
    /\ mpc' = "done"
    /\ UNCHANGED <<cmd, info_length, piece_length, index, plan, mpieces, dvars,
                   fvars, svars, cvars, rvars>>

PlanNext == DownloadPiece \/ DownloadFilePiece \/ DownloadFileDone

PlanSpec == PlanInit /\ [][PlanNext]_vars

RECURSIVE SumSeq(_)
SumSeq(s) == IF s = <<>> THEN 0 ELSE Head(s) + SumSeq(Tail(s))

\* the length the policy gives piece idx of a file of L bytes in pieces of P
PolicyLength(L, P, idx) ==
    IF idx < (L + P - 1) \div P - 1 THEN P
    ELSE IF L % P = 0 THEN P ELSE L % P

\* C12: piece length policy.  For a file of L > 0 bytes in pieces of P > 0
\* bytes, every piece but the last is given P bytes and the last is given
\* L mod P bytes, or P bytes when L mod P = 0; over the whole file the
\* lengths sum to L.
C12_PieceLengthPolicy ==
    mpc = "done" =>
        /\ cmd = "download_piece" =>
               plan[1] = PolicyLength(info_length, piece_length, index)
        /\ cmd = "download_file" =>
               /\ \A i \in DOMAIN plan :
                      plan[i] = PolicyLength(info_length, piece_length, i - 1)
               /\ SumSeq(plan) = info_length



(***************************************************************************)
(* decode.rs: the bencode codec.                                           *)
(*                                                                         *)
(* The input is a sequence of bytes and a parser works at a position in    *)
(* it (the nom parsers take the rest of the input as a slice; the rest     *)
(* from position p is that slice).  A source span is the pair of the       *)
(* first and the last position of the bytes a value was parsed from.       *)
(* Numbers stay far below the 64-bit limits of the u64 and i64 parsers,    *)
(* whose overflow errors are therefore not modelled.                       *)
(***************************************************************************)
\* the bytes of the characters the grammar and the sample inputs use
Ascii ==
    [i |-> 105, e |-> 101, l |-> 108, d |-> 100, colon |-> 58,
     minus |-> 45, plus |-> 43, zero |-> 48, a |-> 97, b |-> 98]

\* Decoded / DecodedKind (decode.rs:7-22), one record shape for the five
\* kinds; the fields a kind does not have are 0 / <<>> / {}.  A Dict is the
\* set of (key, value) pairs of its HashMap.
DVal(k, n, bs, items, entries, span) ==
    [kind |-> k, n |-> n, bytes |-> bs, items |-> items, entries |-> entries,
     source |-> span]
DBytes(bs, span) == DVal("Bytes", 0, bs, <<>>, {}, span)
DString(bs, span) == DVal("String", 0, bs, <<>>, {}, span)
DInt(n, span) == DVal("Int", n, <<>>, <<>>, {}, span)
DList(items, span) == DVal("List", 0, <<>>, items, {}, span)
DDict(entries, span) == DVal("Dict", 0, <<>>, <<>>, entries, span)

\* IResult: Ok((rest, value)), Err, or a panic on the way
PResult(st, v, p) == [st |-> st, val |-> v, pos |-> p]
Fail == PResult("err", DInt(0, <<0, 0>>), 0)
Panicked == PResult("panic", DInt(0, <<0, 0>>), 0)

\* (a variant that is off by one: the span takes in the first byte of the
\* rest)
SpanIntoRest(p, rest) == <<p, rest>>

\* encoded.strip_suffix(rest) (decode.rs:157-159, 169-171, 177-179,
\* 193-195): the bytes from where the parser started up to where the rest
\* begins
Span(p, rest) == <<p, rest - 1>>

\* std::str::from_utf8(s).is_ok() (decode.rs:160)
Cont(s, p) == p <= Len(s) /\ s[p] \in 128..191
Second(s, p, lo, hi) == p <= Len(s) /\ s[p] \in lo..hi

Utf8Width(s, p) ==
    LET b == s[p] IN
    CASE b <= 127 -> 1
      [] b \in 194..223 /\ Cont(s, p + 1) -> 2
      [] b = 224 /\ Second(s, p + 1, 160, 191) /\ Cont(s, p + 2) -> 3
      [] b \in (225..236) \cup (238..239)
           /\ Cont(s, p + 1) /\ Cont(s, p + 2) -> 3
      [] b = 237 /\ Second(s, p + 1, 128, 159) /\ Cont(s, p + 2) -> 3
      [] b = 240 /\ Second(s, p + 1, 144, 191)
           /\ Cont(s, p + 2) /\ Cont(s, p + 3) -> 4
      [] b \in 241..243
           /\ Cont(s, p + 1) /\ Cont(s, p + 2) /\ Cont(s, p + 3) -> 4
      [] b = 244 /\ Second(s, p + 1, 128, 143)
           /\ Cont(s, p + 2) /\ Cont(s, p + 3) -> 4
      [] OTHER -> 0

RECURSIVE IsUtf8From(_, _)
IsUtf8From(s, p) ==
    IF p > Len(s) THEN TRUE
    ELSE LET w == Utf8Width(s, p) IN w > 0 /\ IsUtf8From(s, p + w)

IsUtf8(s) == IsUtf8From(s, 1)

\* char(c) (decode.rs:155, 168, 176, 192)
At(I, p, c) == p <= Len(I) /\ I[p] = c

IsDigit(b) == b \in Ascii.zero..(Ascii.zero + 9)

\* where the run of decimal digits that starts at p ends
DigitsEnd(I, p) ==
    CHOOSE q \in p..(Len(I) + 1) :
        /\ \A k \in p..(q - 1) : IsDigit(I[k])
        /\ q = Len(I) + 1 \/ ~IsDigit(I[q])

RECURSIVE DecValue(_, _, _)
DecValue(I, p, q) ==
    IF q <= p THEN 0 ELSE DecValue(I, p, q - 1) * 10 + (I[q - 1] - Ascii.zero)

NoNumber == [ok |-> FALSE, n |-> 0, pos |-> 0]

\* the digits from p up to q as a number
Digits(I, p, q) ==
    IF q = p THEN NoNumber ELSE [ok |-> TRUE, n |-> DecValue(I, p, q), pos |-> q]

\* nom::character::complete::u64 (decode.rs:155): one or more digits
ParseU64(I, p) == Digits(I, p, DigitsEnd(I, p))

Negated(num) == [ok |-> num.ok, n |-> 0 - num.n, pos |-> num.pos]

\* nom::character::complete::i64 (decode.rs:168): an optional sign, - or +,
\* and one or more digits
ParseI64(I, p) ==
    IF At(I, p, Ascii.minus) THEN Negated(ParseU64(I, p + 1))
    ELSE IF At(I, p, Ascii.plus) THEN ParseU64(I, p + 1)
    ELSE ParseU64(I, p)

\* (a variant that takes text to be ASCII: any byte above 127 makes the
\* payload a byte string)
StringKindAscii(s) ==
    IF \A k \in DOMAIN s : s[k] <= 127 THEN "String" ELSE "Bytes"

\* decode.rs:160-164
StringKind(s) == IF IsUtf8(s) THEN "String" ELSE "Bytes"

\* decode.rs:156-164: take(len), the source span, the kind
StringValue(I, p, len) ==
    IF len.pos + len.n > Len(I) THEN Fail
    ELSE PResult("ok",
                 DVal(StringKind(SubSeq(I, len.pos + 1, len.pos + len.n)), 0,
                      SubSeq(I, len.pos + 1, len.pos + len.n), <<>>, {},
                      Span(p, len.pos + len.n + 1)),
                 len.pos + len.n + 1)

\* decode.rs:155: terminated(u64, char(':'))
StringLen(I, p, len) ==
    IF ~len.ok \/ ~At(I, len.pos, Ascii.colon) THEN Fail ELSE StringValue(I, p, len)

\* string (decode.rs:154-165)
string(I, p) == StringLen(I, p, ParseU64(I, p))

\* decode.rs:168-172: the closing e, the source span
IntValue(I, p, num) ==
    IF ~num.ok \/ ~At(I, num.pos, Ascii.e) THEN Fail
    ELSE PResult("ok", DInt(num.n, Span(p, num.pos + 1)), num.pos + 1)

\* int (decode.rs:167-173)
int(I, p) == IF ~At(I, p, Ascii.i) THEN Fail ELSE IntValue(I, p, ParseI64(I, p + 1))

RECURSIVE decode(_, _)
RECURSIVE many0_decode(_, _)
RECURSIVE many0_dict_entry(_, _)

\* many0: the outcome with nothing more parsed, and with one more item
\* in front of the rest
Many0End(p) == [st |-> "ok", items |-> <<>>, pos |-> p]
Many0Panic == [st |-> "panic", items |-> <<>>, pos |-> 0]
Many0Push(x, t) == [st |-> t.st, items |-> <<x>> \o t.items, pos |-> t.pos]

Many0DecodeItem(I, p, r) ==
    CASE r.st = "err" -> Many0End(p)
      [] r.st = "panic" -> Many0Panic
      [] OTHER -> Many0Push(r.val, many0_decode(I, r.pos))

\* many0(decode) (decode.rs:176): values until decode returns an error
many0_decode(I, p) == Many0DecodeItem(I, p, decode(I, p))

\* decode.rs:176-180: the closing e, the source span
ListValue(I, p, m) ==
    IF m.st = "panic" THEN Panicked
    ELSE IF ~At(I, m.pos, Ascii.e) THEN Fail
    ELSE PResult("ok", DList(m.items, Span(p, m.pos + 1)), m.pos + 1)

\* list (decode.rs:175-181)
list(I, p) ==
    IF ~At(I, p, Ascii.l) THEN Fail ELSE ListValue(I, p, many0_decode(I, p + 1))

NoEntry(st) == [st |-> st, key |-> <<>>, val |-> Fail.val, pos |-> 0]

\* decode.rs:184-188: both parsed; a key that is not DecodedKind::String
\* panics
EntryValue(k, v) ==
    IF v.st # "ok" THEN NoEntry(v.st)
    ELSE IF k.val.kind # "String" THEN NoEntry("panic")
    ELSE [st |-> "ok", key |-> k.val.bytes, val |-> v.val, pos |-> v.pos]

\* decode.rs:184: tuple((string, decode))
EntryKey(I, k) == IF k.st # "ok" THEN NoEntry("err") ELSE EntryValue(k, decode(I, k.pos))

\* dict_entry (decode.rs:183-189)
dict_entry(I, p) == EntryKey(I, string(I, p))

Many0DictEntryItem(I, p, r) ==
    CASE r.st = "err" -> Many0End(p)
      [] r.st = "panic" -> Many0Panic
      [] OTHER -> Many0Push([key |-> r.key, val |-> r.val],
                            many0_dict_entry(I, r.pos))

\* many0(dict_entry) (decode.rs:192)
many0_dict_entry(I, p) == Many0DictEntryItem(I, p, dict_entry(I, p))

\* vec.into_iter().collect() into a HashMap (decode.rs:198): of two entries
\* with the same key the later one stays
Collect(es) ==
    {<<es[i].key, es[i].val>> :
        i \in {i \in DOMAIN es : \A j \in DOMAIN es : j > i => es[j].key # es[i].key}}

\* decode.rs:192-199: the closing e, the source span
DictValue(I, p, m) ==
    IF m.st = "panic" THEN Panicked
    ELSE IF ~At(I, m.pos, Ascii.e) THEN Fail
    ELSE PResult("ok", DDict(Collect(m.items), Span(p, m.pos + 1)), m.pos + 1)

\* dict (decode.rs:191-200)
dict(I, p) ==
    IF ~At(I, p, Ascii.d) THEN Fail ELSE DictValue(I, p, many0_dict_entry(I, p + 1))

\* alt: the first parser's outcome unless it is an error
Alt(first, others) == IF first.st # "err" THEN first ELSE others

\* decode (decode.rs:203-205): alt((string, int, list, dict))
decode(I, p) == Alt(string(I, p), Alt(int(I, p), Alt(list(I, p), dict(I, p))))



\* Display of an unsigned and of a signed integer, as write! formats them
RECURSIVE NatDigits(_)
NatDigits(n) ==
    IF n < 10 THEN <<Ascii.zero + n>>
    ELSE NatDigits(n \div 10) \o <<Ascii.zero + (n % 10)>>

\* (a variant that drops the sign)
IntDigitsUnsigned(n) == NatDigits(IF n < 0 THEN 0 - n ELSE n)

IntDigits(n) == IF n < 0 THEN <<Ascii.minus>> \o NatDigits(0 - n) ELSE NatDigits(n)

\* decode.rs:49-55 and 67: "{len}:" and the bytes
EncodeString(bs) == NatDigits(Len(bs)) \o <<Ascii.colon>> \o bs

\* decode.rs:56
EncodeInt(n) == <<Ascii.i>> \o IntDigits(n) \o <<Ascii.e>>

RECURSIVE Concat(_)
Concat(ss) == IF ss = <<>> THEN <<>> ELSE Head(ss) \o Concat(Tail(ss))

\* the sequences that take one element from each set of a sequence of sets
RECURSIVE Choices(_)
Choices(sets) ==
    IF sets = <<>> THEN {<<>>}
    ELSE {<<h>> \o t : h \in Head(sets), t \in Choices(Tail(sets))}

\* the orders in which a HashMap may hand out its entries
Orders(S) ==
    {o \in [1..Cardinality(S) -> S] : \A i, j \in DOMAIN o : i # j => o[i] # o[j]}

\* Decoded::encode (decode.rs:44-75): the outputs it can produce, one per
\* iteration order of every HashMap in the value
RECURSIVE encode(_)
encode(v) ==
    CASE v.kind \in {"Bytes", "String"} -> {EncodeString(v.bytes)}
      [] v.kind = "Int" -> {EncodeInt(v.n)}
      [] v.kind = "List" ->
            {<<Ascii.l>> \o Concat(c) \o <<Ascii.e>> :
                c \in Choices([i \in DOMAIN v.items |-> encode(v.items[i])])}
      [] OTHER ->
            UNION {{<<Ascii.d>> \o Concat(c) \o <<Ascii.e>> :
                        c \in Choices([i \in DOMAIN o |->
                                 {EncodeString(o[i][1]) \o x : x \in encode(o[i][2])}])} :
                   o \in Orders(v.entries)}

(***************************************************************************)
(* DecodeSpec: decode on an input, Decoded::encode on the value it         *)
(* returned, decode on the output of that.                                 *)
(*                                                                         *)
(* The inputs: strings, integers, lists and dicts of them nested two       *)
(* deep, in canonical and in other accepted forms (a sign +, leading       *)
(* zeros, repeated and unordered keys, keys that are not UTF-8), and       *)
(* inputs that are not bencode (cut short, a non-string where a key is     *)
(* due), some followed by further bytes.                                   *)
(***************************************************************************)
SeqsUpTo(S, n) == UNION {[1..k -> S] : k \in 0..n}

\* payloads that are UTF-8 text: empty, "a", e-acute, the euro sign, an emoji
TextPayloads ==
    {<<>>, <<Ascii.a>>, <<195, 169>>, <<226, 130, 172>>, <<240, 159, 146, 150>>}

\* payloads that are not: 0xFF, a lone lead byte, a lone continuation byte,
\* an overlong form, a surrogate, a code point past U+10FFFF
BinaryPayloads ==
    {<<255>>, <<195>>, <<169>>, <<Ascii.a, 255>>, <<192, 128>>,
     <<237, 160, 128>>, <<244, 144, 128, 128>>}

SampleStrings == {<<>>, <<Ascii.a>>, <<255>>, <<195, 169>>}
SampleKeys == {<<Ascii.a>>, <<Ascii.b>>, <<255>>}

\* <n>:<n bytes> for a payload of fewer than ten bytes
Prefixed(s) == <<Ascii.zero + Len(s), Ascii.colon>> \o s

\* i0e, i-3e, i12e
IntAtoms ==
    {<<Ascii.i, Ascii.zero, Ascii.e>>,
     <<Ascii.i, Ascii.minus, Ascii.zero + 3, Ascii.e>>,
     <<Ascii.i, Ascii.zero + 1, Ascii.zero + 2, Ascii.e>>}

\* i+5e, i-0e, i007e, 01:a
OddAtoms ==
    {<<Ascii.i, Ascii.plus, Ascii.zero + 5, Ascii.e>>,
     <<Ascii.i, Ascii.minus, Ascii.zero, Ascii.e>>,
     <<Ascii.i, Ascii.zero, Ascii.zero, Ascii.zero + 7, Ascii.e>>,
     <<Ascii.zero, Ascii.zero + 1, Ascii.colon, Ascii.a>>}

Atoms == {Prefixed(s) : s \in SampleStrings} \cup IntAtoms \cup OddAtoms

ListsOf(S, n) == {<<Ascii.l>> \o Concat(s) \o <<Ascii.e>> : s \in SeqsUpTo(S, n)}

DictsOf(K, V, n) ==
    {<<Ascii.d>> \o Concat(s) \o <<Ascii.e>> :
        s \in SeqsUpTo({Prefixed(k) \o v : k \in K, v \in V}, n)}

Level1 ==
    Atoms \cup ListsOf(Atoms, MaxItems)
    \cup DictsOf(SampleKeys,
               {<<Ascii.i, Ascii.minus, Ascii.zero + 3, Ascii.e>>, Prefixed(<<Ascii.a>>)},
               MaxItems)

Level2 == Level1 \cup ListsOf(Level1, 1) \cup DictsOf({<<Ascii.a>>}, Level1, 1)

CutShort == {SubSeq(x, 1, Len(x) - 1) : x \in Level1}

NonStringKeys ==
    {<<Ascii.d>> \o k \o <<Ascii.i, Ascii.zero, Ascii.e, Ascii.e>> :
        k \in {<<Ascii.i, Ascii.zero, Ascii.e>>, <<Ascii.l, Ascii.e>>,
                <<Ascii.d, Ascii.e>>}}

Followed == {x \o <<Ascii.i, Ascii.zero, Ascii.e>> : x \in Atoms}

DecodeInputs ==
    Level2 \cup CutShort \cup NonStringKeys \cup Followed
    \cup {Prefixed(s) : s \in TextPayloads \cup BinaryPayloads}

DecodeInit ==
    /\ dinput \in DecodeInputs
    /\ dres = <<>>
    /\ denc = <<>>
    /\ dres2 = <<>>
    /\ dpc = "start"
    /\ info_hash = 0
    /\ bitfield = None
    /\ choked = FALSE
    /\ FramingIdle
    /\ ConnectIdle
    /\ RequestIdle
    /\ MainIdle

\* decode(&file) (main.rs:73), decode(&string.as_bytes()) (main.rs:120)
DecodeStep ==
    /\ dpc = "start"
    /\ dres' = decode(dinput, 1)
    /\ dpc' = "decoded"
    /\ UNCHANGED <<dinput, denc, dres2, mvars, fvars, svars, cvars, rvars>>

\* value.encode(&mut vec) (main.rs:123) on the decoded value
EncodeStep ==
    /\ dpc = "decoded"
    /\ dres.st = "ok"
    /\ denc' \in encode(dres.val)
    /\ dpc' = "encoded"
    /\ UNCHANGED <<dinput, dres, dres2, mvars, fvars, svars, cvars, rvars>>

\* decode on what encode wrote
RedecodeStep ==
    /\ dpc = "encoded"
    /\ dres2' = decode(denc, 1)
    /\ dpc' = "redecoded"
    /\ UNCHANGED <<dinput, dres, denc, mvars, fvars, svars, cvars, rvars>>

DecodeNext == DecodeStep \/ EncodeStep \/ RedecodeStep

DecodeSpec == DecodeInit /\ [][DecodeNext]_vars



(***************************************************************************)
(* Properties of the codec.                                                *)
(***************************************************************************)
\* a value without its source spans: what structural equality compares
RECURSIVE Shape(_)
Shape(v) ==
    [kind |-> v.kind, n |-> v.n, bytes |-> v.bytes,
     items |-> [i \in DOMAIN v.items |-> Shape(v.items[i])],
     entries |-> {<<en[1], Shape(en[2])>> : en \in v.entries}]

\* a value and the values inside it, at any depth
RECURSIVE SubValues(_)
SubValues(v) ==
    {v} \cup UNION {SubValues(v.items[i]) : i \in DOMAIN v.items}
        \cup UNION {SubValues(en[2]) : en \in v.entries}

\* the bytes of the input a value's source span covers
SourceBytes(I, v) == SubSeq(I, v.source[1], v.source[2])

\* decode on s alone takes all of s and gives a value equal to v
DecodesWhollyTo(r, s, v) ==
    r.st = "ok" /\ r.pos = Len(s) + 1 /\ Shape(r.val) = Shape(v)

\* decode has returned a value for the input
Decoded == dpc \in {"decoded", "encoded", "redecoded"} /\ dres.st = "ok"

\* C13: span fidelity.  For every value v, at any depth, of the tree decode
\* returned for an input I: v's source span is a contiguous part of I, and
\* decode on those bytes alone consumes all of them and gives a value
\* structurally equal to v.
C13_SpanFidelity ==
    Decoded =>
        \A v \in SubValues(dres.val) :
            /\ 1 <= v.source[1]
            /\ v.source[1] <= v.source[2]
            /\ v.source[2] <= Len(dinput)
            /\ DecodesWhollyTo(decode(SourceBytes(dinput, v), 1),
                               SourceBytes(dinput, v), v)

\* a dict inside another value ("info" inside the torrent), with an entry
C13_Witness ==
    /\ dpc = "decoded"
    /\ dres.st = "ok"
    /\ \E v \in SubValues(dres.val) :
           v.kind = "Dict" /\ v.entries # {} /\ v.source[1] > 1



\* C14: codec round trip.  For every input decode accepts, decoding it,
\* encoding the value with Decoded::encode and decoding the output again
\* gives a tree structurally equal to the first one (a dict compared as a
\* mapping from key to value, whatever the order encode wrote it in).
C14_CodecRoundTrip ==
    dpc = "redecoded" =>
        /\ dres2.st = "ok"
        /\ dres2.pos = Len(denc) + 1
        /\ Shape(dres2.val) = Shape(dres.val)

\* a dict of two keys holding a negative integer was written back in
\* other bytes than the input's
C14_Witness ==
    /\ dpc = "redecoded"
    /\ dres.val.kind = "Dict"
    /\ Cardinality(dres.val.entries) = 2
    /\ \E en \in dres.val.entries : en[2].kind = "Int" /\ en[2].n < 0
    /\ denc # SourceBytes(dinput, dres.val)

\* the input is a dict whose first key position holds an integer, a list,
\* a dict, or a length-prefixed string that is not UTF-8
NotUtf8Key(k) == k.st = "ok" /\ k.val.kind = "Bytes"

NonStringKey(I) ==
    /\ At(I, 1, Ascii.d)
    /\ \/ At(I, 2, Ascii.i)
       \/ At(I, 2, Ascii.l)
       \/ At(I, 2, Ascii.d)
       \/ NotUtf8Key(string(I, 2))

\* C15: decode rejects a dict whose key position holds a non-string with a
\* parse error returned to its caller: for an integer, a list or a dict in
\* key position, and equally for a length-prefixed key whose bytes are not
\* valid UTF-8.  The entry is not skipped and the parser does not crash.
C15_NonStringKeyRejected ==
    (dpc = "decoded" /\ NonStringKey(dinput)) => dres.st = "err"

\* C16: string against bytes.  For every well-formed length-prefixed string
\* <n>:<n bytes> decode succeeds; the value is a String exactly when the
\* payload is valid UTF-8 and Bytes otherwise, never a parse failure.
C16_StringClassification ==
    dpc = "decoded" =>
        /\ \A s \in TextPayloads :
               dinput = Prefixed(s) =>
                   dres.st = "ok" /\ Shape(dres.val) = Shape(DString(s, <<0, 0>>))
        /\ \A s \in BinaryPayloads :
               dinput = Prefixed(s) =>
                   dres.st = "ok" /\ Shape(dres.val) = Shape(DBytes(s, <<0, 0>>))

\* the payload 0xFF alone came out as Bytes
C16_Witness ==
    /\ dpc = "decoded"
    /\ dinput = Prefixed(<<255>>)
    /\ dres.st = "ok"
    /\ dres.val.kind = "Bytes"



(***************************************************************************)
(* Further properties of request_pieces.                                   *)
(***************************************************************************)
\* a step in which read_from hands the call the frame at the head of the
\* stream, and what that frame decodes to
ReadStep ==
    /\ FrameReady(ReadInput)
    /\ inbound' = DropBytes(ReadInput, read_from(ReadInput).used)
HeadMsg == read_from(ReadInput).msg
HeadIs(types) ==
    /\ FrameReady(ReadInput)
    /\ read_from(ReadInput).kind = "ok"
    /\ HeadMsg.type \in types

\* the call reads the Piece of an outstanding key whose receiver the caller
\* has dropped
DroppedPieceRead ==
    /\ ReadStep
    /\ HeadIs({"Piece"})
    /\ PieceHit(pieces, HeadMsg)
    /\ ~SendOk(pieces, slot, HeadMsg)

\* C17: cancellation is a no-op.  When the Piece of a key arrives whose slot
\* the caller has dropped, the failed delivery is not an error, the key is
\* no longer outstanding, and the call returns normally once no key is
\* outstanding, also when the dropped slot was that of the last outstanding
\* key.  (The return is asked of the second loop only.)
C17_CancellationIsNoOp ==
    [][DroppedPieceRead =>
          /\ pc' \notin {"err", "panic"}
          /\ <<HeadMsg.index, HeadMsg.begin>> \notin DOMAIN pieces'
          /\ (pc = "loop" /\ DOMAIN pieces' = {}) => pc' = "ok_false"]_vars



\* the call reads a Piece whose (index, begin) is not an outstanding key
UnmatchedPieceRead ==
    /\ ReadStep
    /\ pc \in {"select", "loop"}
    /\ HeadIs({"Piece"})
    /\ ~PieceHit(pieces, HeadMsg)

\* C18: exactly-once delivery and discard of unmatched blocks.  A slot that
\* has been resolved is never given another value; and a Piece whose
\* (index, begin) matches no outstanding key, unsolicited or a duplicate, is
\* discarded: the outstanding set and every slot stay as they are and the
\* call goes on.
C18_ExactlyOnceDelivery ==
    [][/\ \A i \in DOMAIN slot : Resolved(i) => slot'[i] = slot[i]
       /\ UnmatchedPieceRead => (pieces' = pieces /\ slot' = slot /\ pc' = pc)]_vars

\* two keys and three frames read, none of them a Choke: the Piece of the
\* first key was delivered and the other two Pieces, duplicates of it or
\* Pieces of a key not asked for, were discarded; the call is still running
C18_Witness ==
    /\ pc \in {"select", "loop"}
    /\ Len(reqs) = 2
    /\ slot[1].st = "data"
    /\ slot[2] = Pending
    /\ nsent = 3
    /\ inbound = <<>>
    /\ ~gotChoke

\* the messages request_pieces does not expect
OtherTypes ==
    {"Unchoke", "Interested", "NotInterested", "Have", "Bitfield", "Request", "Port"}

\* C19: while request_pieces is running, in either loop, reading any message
\* other than Piece or Choke (Unchoke, Interested, NotInterested, Have,
\* Bitfield, Request, Port) makes the call fail with an error.
C19_UnexpectedMessageFails ==
    [][(ReadStep /\ pc \in {"select", "loop"} /\ HeadIs(OtherTypes)) => pc' = "err"]_vars

\* the call failed in the second loop with no I/O error behind it
C19_Witness ==
    /\ pc = "err"
    /\ ~ioErr
    /\ reqs # <<>>
    /\ AddDone(out)

\* what has been written is, chunk by chunk, the Requests of the list in the
\* order of the list, and every whole frame written reads back as the Request
\* of its entry
WrittenInOrder ==
    /\ Len(out) <= 3 * Len(reqs)
    /\ \A k \in DOMAIN out : out[k] = Chunks(reqs[((k - 1) \div 3) + 1])[((k - 1) % 3) + 1]
    /\ \A i \in DOMAIN reqs :
          3 * i <= Len(out) =>
              read_from(out[3 * i - 2].bytes \o out[3 * i - 1].bytes \o out[3 * i].bytes).msg
                  = Request(reqs[i].index, reqs[i].begin, reqs[i].length)

\* C20: request_pieces writes the Request messages in exactly the order of
\* the input list, at most one per entry, each with that entry's (index,
\* begin, length); and once a Choke has been read during the call nothing
\* more is written.  As a property of every step: a step that writes leaves
\* what has been written in order, and no step writes after a Choke.
C20_RequestsInOrderUntilChoke ==
    [][(out' # out) => (WrittenInOrder' /\ ~gotChoke)]_vars

\* a Choke was read after the first Request had gone out and before the
\* last one had: the call returned with the rest unwritten
C20_Witness ==
    /\ pc = "ok_true"
    /\ Len(out) >= 3
    /\ Len(out) < 3 * Len(reqs)



\* ---------------------------------------------------------------------
\* C21: read_from consumes exactly 4 + length bytes of the stream for
\* every value of the length prefix, length 0 and length 1 included, so
\* the stream is left at the start of the next frame.
\* ---------------------------------------------------------------------
FrameLength(w) == FromBE32(Slice(w, 1, 4))

WholeFrameOnWire(w) == Len(w) >= 4 /\ Len(w) >= 4 + FrameLength(w)

C21_ConsumesWholeFrame ==
    (fpc = "read" /\ WholeFrameOnWire(fwire)) => fres.used = 4 + FrameLength(fwire)



\* ---------------------------------------------------------------------
\* C22: block splitting.  For every piece of length n > 0 the keys pushed
\* for it have begin = 0, 16384, 32768, ... below n and length =
\* min(n - begin, 16384); the blocks are pairwise disjoint and cover
\* [0, n) exactly; over a whole download no two keys share (index, begin).
\* ---------------------------------------------------------------------
\* the index of the piece whose length is plan[i]
PlannedIndex(i) == IF cmd = "download_piece" THEN index ELSE i - 1

KeysOfPiece(idx) == SelectSeq(mpieces, LAMBDA k : k.index = idx)

SplitOf(ks, n) ==
    /\ Len(ks) = (n + BlockSize - 1) \div BlockSize
    /\ \A j \in DOMAIN ks :
           /\ ks[j].begin = (j - 1) * BlockSize
           /\ ks[j].begin < n
           /\ ks[j].length > 0
           /\ ks[j].length = IF n - ks[j].begin < BlockSize
                             THEN n - ks[j].begin ELSE BlockSize
    \* disjoint
    /\ \A j, k \in DOMAIN ks :
           j < k => ks[j].begin + ks[j].length <= ks[k].begin
    \* every byte of [0, n) lies in a block, and no block reaches beyond n
    /\ ks[1].begin = 0
    /\ \A j \in DOMAIN ks :
           ks[j].begin + ks[j].length =
               IF j = Len(ks) THEN n ELSE ks[j + 1].begin

C22_BlockSplitting ==
    /\ \A i \in DOMAIN plan :
           plan[i] > 0 => SplitOf(KeysOfPiece(PlannedIndex(i)), plan[i])
    /\ \A a, b \in DOMAIN mpieces :
           a # b => <<mpieces[a].index, mpieces[a].begin>>
                        # <<mpieces[b].index, mpieces[b].begin>>

\* a whole-file download of several pieces, one of them split into a full
\* block and more with a shorter last block
C22_Witness ==
    /\ mpc = "done"
    /\ cmd = "download_file"
    /\ Len(plan) >= 2
    /\ \E k \in DOMAIN mpieces :
           /\ mpieces[k].begin >= BlockSize
           /\ mpieces[k].length < BlockSize
    /\ \E k \in DOMAIN mpieces : mpieces[k].index >= 1



\* ---------------------------------------------------------------------
\* C23: inbound framing survives the interleaving of reads and writes in
\* request_pieces.  When the write phase finishes while a read_from is
\* partway through a frame, no byte it has consumed is lost, and every
\* message read_from returns is one the peer has sent: in particular a
\* Choke is read only if the peer has sent a Choke.
\* ---------------------------------------------------------------------
C23_FramingSurvivesSelect ==
    /\ dropped = 0
    /\ gotChoke => sentChoke



\* ---------------------------------------------------------------------
\* C24: outbound frames are whole.  Whenever request_pieces returns, the
\* early return on a Choke included, every Request frame whose length
\* prefix was written has also had its tag and its payload written: the
\* outgoing stream is not left in the middle of a frame.
\* ---------------------------------------------------------------------
\* write_to puts a frame on the stream in three writes
OutOnFrameBoundary == Len(out) % 3 = 0

C24_OutboundFramesWhole ==
    pc \in {"ok_true", "ok_false"} => OutOnFrameBoundary

\* ---------------------------------------------------------------------
\* C25: a slot is resolved with a block only in response to a request
\* made.  The block of a Piece message is delivered to the slot of key k
\* only after the Request for k has been written to the stream.
\* ---------------------------------------------------------------------
RequestWritten(k) ==
    \E j \in 1..(Len(out) \div 3) : KeyOf(reqs[j]) = k

C25_DeliveryFollowsRequest ==
    \A i \in DOMAIN slot :
        slot[i].st = "data" => RequestWritten(KeyOf(reqs[i]))

=============================================================================
